---------------------------- MODULE Spec2Model ----------------------------
(***************************************************************************)
(* libsql-kv: a key-value store with TTL on top of a libSQL table.         *)
(* Model of class KVStore (src/src/index.ts): every public method is       *)
(* split at its await points, so that calls of several callers interleave  *)
(* at the backend.  The backend is a table of rows (key, value,            *)
(* expires_at) with a single write lock, a clock (Date.now()) and          *)
(* statements that may fail.                                               *)
(***************************************************************************)
EXTENDS Integers, Sequences, FiniteSets, TLC

(***************************************************************************)
(* Bounds of the model.                                                    *)
(***************************************************************************)
MaxTime   == 3      \* the clock runs from StartTime to MaxTime
MaxTTL    == 1      \* largest ttl (ms) passed to set
MaxStrLen == 2      \* longest string value in the round-trip check
MaxArrLen == 2      \* longest array value in the round-trip check

StartTime == 1      \* Date.now() is positive
NULL      == -1     \* SQL NULL / JS null in column expires_at (never a time)

(***************************************************************************)
(* JSON values (the argument `value` of set, the result of get).           *)
(***************************************************************************)
JNull      == [t |-> "null"]
JBool(b)   == [t |-> "bool", b |-> b]
JNum(n)    == [t |-> "num", n |-> n]
JStr(s)    == [t |-> "str", s |-> s]       \* s: sequence of characters
JArr(xs)   == [t |-> "arr", xs |-> xs]     \* xs: sequence of values
JObj(ms)   == [t |-> "obj", ms |-> ms]     \* ms: sequence of <<key, value>>

DigitChars == <<"0", "1", "2", "3", "4", "5", "6", "7", "8", "9">>
DigitSet   == {DigitChars[i] : i \in 1..10}
DigitVal(c) == (CHOOSE i \in 1..10 : DigitChars[i] = c) - 1

RECURSIVE Digits(_)
Digits(n) ==
  IF n < 10 THEN <<DigitChars[n + 1]>>
  ELSE Digits(n \div 10) \o <<DigitChars[(n % 10) + 1]>>

NumberToString(n) == IF n < 0 THEN <<"-">> \o Digits(0 - n) ELSE Digits(n)

\* JSON.stringify escapes the quote and the backslash inside a string
EscapeCharNoQuote(c) == IF c = "\\" THEN <<"\\", "\\">> ELSE <<c>>
EscapeChar(c) ==
  IF c = "\"" THEN <<"\\", "\"">>
  ELSE IF c = "\\" THEN <<"\\", "\\">>
  ELSE <<c>>

RECURSIVE EscapeString(_)
EscapeString(s) ==
  IF s = <<>> THEN <<>> ELSE EscapeChar(Head(s)) \o EscapeString(Tail(s))

Quote(s) == <<"\"">> \o EscapeString(s) \o <<"\"">>

RECURSIVE JSONstringify(_), StringifyElements(_), StringifyMembers(_)
JSONstringify(v) ==
  CASE v.t = "null" -> <<"n", "u", "l", "l">>
    [] v.t = "bool" -> IF v.b THEN <<"t", "r", "u", "e">>
                       ELSE <<"f", "a", "l", "s", "e">>
    [] v.t = "num"  -> NumberToString(v.n)
    [] v.t = "str"  -> Quote(v.s)
    [] v.t = "arr"  -> <<"[">> \o StringifyElements(v.xs) \o <<"]">>
    [] v.t = "obj"  -> <<"{">> \o StringifyMembers(v.ms) \o <<"}">>

StringifyElements(xs) ==
  IF xs = <<>> THEN <<>>
  ELSE IF Len(xs) = 1 THEN JSONstringify(xs[1])
  ELSE JSONstringify(xs[1]) \o <<",">> \o StringifyElements(Tail(xs))

StringifyMembers(ms) ==
  IF ms = <<>> THEN <<>>
  ELSE LET m == Quote(ms[1][1]) \o <<":">> \o JSONstringify(ms[1][2])
       IN  IF Len(ms) = 1 THEN m
           ELSE m \o <<",">> \o StringifyMembers(Tail(ms))

(***************************************************************************)
(* JSON.parse: a recursive-descent parser over the characters of the text. *)
(* A parse step returns [ok, v, next]: next is the position after the      *)
(* value.  A text that is not one complete value is a SyntaxError.         *)
(***************************************************************************)
ParseFail == [ok |-> FALSE, v |-> JNull, next |-> 0]
ParseOk(v, next) == [ok |-> TRUE, v |-> v, next |-> next]

At(s, i) == IF i >= 1 /\ i <= Len(s) THEN s[i] ELSE "EOF"
Lit(s, i, w) ==
  /\ i + Len(w) - 1 <= Len(s)
  /\ SubSeq(s, i, i + Len(w) - 1) = w

RECURSIVE ParseChars(_, _, _)
\* the characters of a string, after its opening quote
ParseChars(s, i, acc) ==
  IF i > Len(s) THEN ParseFail
  ELSE IF s[i] = "\"" THEN ParseOk(JStr(acc), i + 1)
  ELSE IF s[i] = "\\"
       THEN IF At(s, i + 1) \in {"\"", "\\"}
            THEN ParseChars(s, i + 2, Append(acc, s[i + 1]))
            ELSE ParseFail
  ELSE ParseChars(s, i + 1, Append(acc, s[i]))

RECURSIVE ParseDigits(_, _, _)
ParseDigits(s, i, acc) ==
  IF At(s, i) \in DigitSet
  THEN ParseDigits(s, i + 1, acc * 10 + DigitVal(s[i]))
  ELSE [n |-> acc, next |-> i]

ParseNumber(s, i) ==
  LET neg == At(s, i) = "-"
      j   == IF neg THEN i + 1 ELSE i
  IN  IF At(s, j) \notin DigitSet THEN ParseFail
      ELSE LET d == ParseDigits(s, j, 0)
           IN  ParseOk(JNum(IF neg THEN 0 - d.n ELSE d.n), d.next)

\* a member parsed twice keeps its place and takes the last value
PutMember(ms, k, v) ==
  IF \E j \in 1..Len(ms) : ms[j][1] = k
  THEN [j \in 1..Len(ms) |-> IF ms[j][1] = k THEN <<k, v>> ELSE ms[j]]
  ELSE Append(ms, <<k, v>>)

RECURSIVE ParseValue(_, _), ParseElements(_, _, _), ParseMembers(_, _, _)
ParseValue(s, i) ==
  LET c == At(s, i) IN
  CASE c = "n" -> IF Lit(s, i, <<"n", "u", "l", "l">>)
                  THEN ParseOk(JNull, i + 4) ELSE ParseFail
    [] c = "t" -> IF Lit(s, i, <<"t", "r", "u", "e">>)
                  THEN ParseOk(JBool(TRUE), i + 4) ELSE ParseFail
    [] c = "f" -> IF Lit(s, i, <<"f", "a", "l", "s", "e">>)
                  THEN ParseOk(JBool(FALSE), i + 5) ELSE ParseFail
    [] c = "\"" -> ParseChars(s, i + 1, <<>>)
    [] c = "[" -> IF At(s, i + 1) = "]" THEN ParseOk(JArr(<<>>), i + 2)
                  ELSE ParseElements(s, i + 1, <<>>)
    [] c = "{" -> IF At(s, i + 1) = "}" THEN ParseOk(JObj(<<>>), i + 2)
                  ELSE ParseMembers(s, i + 1, <<>>)
    [] c = "-" \/ c \in DigitSet -> ParseNumber(s, i)
    [] OTHER -> ParseFail

\* the elements of an array, from the first character of an element
ParseElements(s, i, acc) ==
  LET e == ParseValue(s, i) IN
  IF ~e.ok THEN ParseFail
  ELSE IF At(s, e.next) = "," THEN ParseElements(s, e.next + 1, Append(acc, e.v))
  ELSE IF At(s, e.next) = "]" THEN ParseOk(JArr(Append(acc, e.v)), e.next + 1)
  ELSE ParseFail

\* the members of an object, from the opening quote of a member's key
ParseMembers(s, i, acc) ==
  IF At(s, i) # "\"" THEN ParseFail
  ELSE LET k == ParseChars(s, i + 1, <<>>) IN
       IF ~k.ok \/ At(s, k.next) # ":" THEN ParseFail
       ELSE LET e == ParseValue(s, k.next + 1) IN
            IF ~e.ok THEN ParseFail
            ELSE IF At(s, e.next) = ","
                 THEN ParseMembers(s, e.next + 1, PutMember(acc, k.v.s, e.v))
            ELSE IF At(s, e.next) = "}"
                 THEN ParseOk(JObj(PutMember(acc, k.v.s, e.v)), e.next + 1)
            ELSE ParseFail

\* [ok, v]: ok is FALSE when JSON.parse throws a SyntaxError
JSONparse(text) ==
  LET r == ParseValue(text, 1)
  IN  IF r.ok /\ r.next = Len(text) + 1
      THEN [ok |-> TRUE, v |-> r.v]
      ELSE [ok |-> FALSE, v |-> JNull]

(***************************************************************************)
(* Inputs of the calls.                                                    *)
(***************************************************************************)
Callers == {1}                   \* one caller: its calls follow one another
Keys   == {"k1", "k2"}
Values == {JNull, JObj(<< <<<<"a">>, JStr(<<"\"">>)>> >>)}

\* the values of the round-trip check: every kind of JSON value, strings
\* that need escaping, arrays and objects nested in one another
Alphabet   == {"a", "\""}
Strings    == UNION {[1..m -> Alphabet] : m \in 0..MaxStrLen}
                \cup {<<"\\">>, <<"\\", "\"">>, <<"a", "\\">>}
Atoms      == {JNull, JBool(TRUE), JBool(FALSE), JNum(-1), JNum(0), JNum(12)}
                \cup {JStr(s) : s \in Strings}
SmallAtoms == {JNum(-1), JStr(<<"\"">>)}
Arrays     == {JArr(xs) : xs \in UNION {[1..m -> SmallAtoms] : m \in 0..MaxArrLen}}
Objects    == {JObj(<<>>)}
                \cup {JObj(<< <<k, v>> >>) : k \in {<<"a">>, <<"\"">>},
                                            v \in SmallAtoms \cup {JNull}}
                \cup {JObj(<< <<<<"a">>, JNum(12)>>, <<<<"\\">>, JStr(<<"a">>)>> >>)}
Inner      == {JArr(<<>>), JObj(<<>>), JArr(<<JStr(<<"\"">>)>>),
               JObj(<< <<<<"\\">>, JNull>> >>)}
Nested     == {JArr(<<x>>) : x \in Inner}
                \cup {JObj(<< <<<<"a">>, x>> >>) : x \in Inner}
JsonValues == Atoms \cup Arrays \cup Objects \cup Nested

\* ttl?: number | null.  A number is kept in halves, so that 0.5 is an input
TTLUndefined == [kind |-> "undefined", half |-> 0]
TTLNull      == [kind |-> "null", half |-> 0]
TTLNum(h)    == [kind |-> "num", half |-> h]
TTLs == {TTLUndefined, TTLNull} \cup {TTLNum(h) : h \in -2..(2 * MaxTTL)}

\* allowStale?: boolean, as an argument and as an option
Tri == {"undefined", "true", "false"}

(***************************************************************************)
(* Pieces of the methods.                                                  *)
(***************************************************************************)
NumberIsInteger(ttl) == ttl.half % 2 = 0

\* the negation of the condition of the throw in set
ValidTTLNoSign(ttl) ==
  ~(ttl.kind # "undefined" /\ ttl.kind # "null" /\ ~NumberIsInteger(ttl))
ValidTTL(ttl) ==
  ~(/\ ttl.kind # "undefined"
    /\ ttl.kind # "null"
    /\ (~NumberIsInteger(ttl) \/ ttl.half < 0))

\* `ttl ? ... : ...` with ttl a number, null or undefined
TTLTruthy(ttl) == ttl.kind = "num" /\ ttl.half # 0

\* const expiresAt = ttl ? Date.now() + ttl : null
ExpiresAt(ttl, clock) ==
  IF TTLTruthy(ttl) THEN clock + (ttl.half \div 2) ELSE NULL

\* INSERT ... ON CONFLICT(key) DO UPDATE SET value = ..., expires_at = ...
Row(k, text, exp) == [key |-> k, value |-> text, expires_at |-> exp]
UpsertKeepExpiry(table, k, text, exp) ==
  IF \E r \in table : r.key = k
  THEN {r \in table : r.key # k}
         \cup {Row(k, text, r.expires_at) : r \in {x \in table : x.key = k}}
  ELSE table \cup {Row(k, text, exp)}
Upsert(table, k, text, exp) ==
  {r \in table : r.key # k} \cup {Row(k, text, exp)}

\* SELECT value, expires_at FROM t WHERE key = ?
Select(table, k) == {r \in table : r.key = k}

\* DELETE FROM t WHERE key = ?
DeleteKeyAll(table, k) == {}
DeleteKey(table, k) == {r \in table : r.key # k}

\* DELETE FROM t WHERE expires_at IS NOT NULL AND expires_at <= ?
ExpiredStrict(table, t) ==
  {r \in table : r.expires_at # NULL /\ r.expires_at < t}
Expired(table, t) ==
  {r \in table : r.expires_at # NULL /\ r.expires_at <= t}

\* row.expires_at && row.expires_at <= Date.now()
IsStaleStrict(row, clock) ==
  /\ row.expires_at # NULL
  /\ row.expires_at # 0
  /\ row.expires_at < clock
IsStale(row, clock) ==
  /\ row.expires_at # NULL
  /\ row.expires_at # 0
  /\ row.expires_at <= clock

\* a ?? b
Coalesce(a, b) == IF a \in {"undefined", "null"} THEN b ELSE a

\* allowStale ?? this.allowStale ?? false
ShouldAllowStaleStoreFirst(arg, this) ==
  Coalesce(Coalesce(this, arg), "false") = "true"
ShouldAllowStale(arg, this) ==
  Coalesce(Coalesce(arg, this), "false") = "true"

\* this.allowStale = options.allowStale || false
ConstructAllowStale(option) == IF option = "true" THEN "true" ELSE "false"

(***************************************************************************)
(* State.                                                                  *)
(***************************************************************************)
VARIABLES
  rows,         \* the table: a set of rows (key, value, expires_at)
  tableExists,  \* the table has been created
  writer,       \* the caller that holds the write transaction, 0 for none
  now,          \* Date.now()
  initialized,  \* this.initialized
  allowStale,   \* this.allowStale
  calls,        \* calls[p]: the call of caller p and where it stands
  lastWrite     \* history: per key, the last committed write to it

vars == <<rows, tableExists, writer, now, initialized, allowStale, calls,
          lastWrite>>

NoWrite == [op |-> "none", value |-> JNull, ttl |-> TTLUndefined, t |-> 0]
WriteOf(op, v, ttl, t) == [op |-> op, value |-> v, ttl |-> ttl, t |-> t]

Idle ==
  [op |-> "idle", pc |-> "idle", key |-> "", value |-> JNull,
   ttl |-> TTLUndefined, arg |-> "undefined", expiresAt |-> NULL, t |-> 0,
   resultRows |-> {}, staged |-> {}, affected |-> 0, result |-> JNull,
   error |-> "", opened |-> 0, closed |-> 0, txn |-> "none",
   overlapped |-> FALSE, seen |-> NoWrite]

\* caller p's call becomes c
Step(p, c) == calls' = [calls EXCEPT ![p] = c]
\* the call returns (error = "") or throws
Done(c, result, error) ==
  [c EXCEPT !.pc = "done", !.result = result, !.error = error,
            !.staged = {}]

\* history: while caller p commits, another caller's call is suspended at
\* client.transaction('write'), so the two calls overlap
Waiting(p) ==
  \E q \in DOMAIN calls : q # p /\ calls[q].pc = "txn"

Init ==
  /\ rows = {}
  /\ tableExists = FALSE
  /\ writer = 0
  /\ now = StartTime
  /\ initialized = FALSE
  /\ \E option \in Tri : allowStale = ConstructAllowStale(option)
  /\ calls = [p \in Callers |-> Idle]
  /\ lastWrite = [k \in Keys |-> NoWrite]

\* time passes
Tick ==
  /\ now < MaxTime
  /\ now' = now + 1
  /\ UNCHANGED <<rows, tableExists, writer, initialized, allowStale, calls,
                 lastWrite>>

\* the caller takes the outcome of its call and is free to call again
Return(p) ==
  /\ calls[p].pc = "done"
  /\ Step(p, Idle)
  /\ UNCHANGED <<rows, tableExists, writer, now, initialized, allowStale,
                 lastWrite>>

(***************************************************************************)
(* initialize()                                                            *)
(***************************************************************************)
InitializeCallNoCheck(p) ==
  /\ calls[p].pc = "idle"
  /\ Step(p, [Idle EXCEPT !.op = "initialize", !.pc = "exec"])
  /\ UNCHANGED <<rows, tableExists, writer, now, initialized, allowStale,
                 lastWrite>>
InitializeCall(p) ==
  /\ calls[p].pc = "idle"
  /\ IF initialized
     THEN Step(p, Done([Idle EXCEPT !.op = "initialize"], JNull,
                       "AlreadyInitialized"))
     ELSE Step(p, [Idle EXCEPT !.op = "initialize", !.pc = "exec"])
  /\ UNCHANGED <<rows, tableExists, writer, now, initialized, allowStale,
                 lastWrite>>

\* await this.client.execute(sql); this.initialized = true
InitializeExecFlagFirst(p) ==
  /\ calls[p].op = "initialize" /\ calls[p].pc = "exec"
  /\ initialized' = TRUE
  /\ \E ok \in BOOLEAN :
       IF ok
       THEN /\ writer = 0
            /\ tableExists' = TRUE
            /\ Step(p, Done(calls[p], JNull, ""))
       ELSE /\ Step(p, Done(calls[p], JNull, "InitializationFailed"))
            /\ UNCHANGED tableExists
  /\ UNCHANGED <<rows, writer, now, allowStale, lastWrite>>
InitializeExec(p) ==
  /\ calls[p].op = "initialize" /\ calls[p].pc = "exec"
  /\ \E ok \in BOOLEAN :
       IF ok
       THEN /\ writer = 0
            /\ tableExists' = TRUE
            /\ initialized' = TRUE
            /\ Step(p, Done(calls[p], JNull, ""))
       ELSE /\ Step(p, Done(calls[p], JNull, "InitializationFailed"))
            /\ UNCHANGED <<tableExists, initialized>>
  /\ UNCHANGED <<rows, writer, now, allowStale, lastWrite>>

(***************************************************************************)
(* set(key, value, ttl?)                                                   *)
(***************************************************************************)
SetCall(p, k, v, ttl) ==
  /\ calls[p].pc = "idle"
  /\ LET c == [Idle EXCEPT !.op = "set", !.key = k, !.value = v, !.ttl = ttl]
     IN  IF ~ValidTTL(ttl)
         THEN Step(p, Done(c, JNull, "InvalidTTL"))
         ELSE Step(p, [c EXCEPT !.pc = "txn",
                                !.expiresAt = ExpiresAt(ttl, now),
                                !.t = IF TTLTruthy(ttl) THEN now ELSE 0])
  /\ UNCHANGED <<rows, tableExists, writer, now, initialized, allowStale,
                 lastWrite>>

\* const transaction = await this.client.transaction('write')
SetTxnNoLock(p) ==
  /\ calls[p].op = "set" /\ calls[p].pc = "txn"
  /\ \E ok \in BOOLEAN :
       IF ok
       THEN /\ writer' = p
            /\ Step(p, [calls[p] EXCEPT !.pc = "texec", !.opened = 1, !.txn = "open"])
       ELSE /\ Step(p, Done(calls[p], JNull, "BackendError"))
            /\ UNCHANGED writer
  /\ UNCHANGED <<rows, tableExists, now, initialized, allowStale, lastWrite>>
SetTxn(p) ==
  /\ calls[p].op = "set" /\ calls[p].pc = "txn"
  /\ \E ok \in BOOLEAN :
       IF ok
       THEN /\ writer = 0
            /\ writer' = p
            /\ Step(p, [calls[p] EXCEPT !.pc = "texec", !.opened = 1, !.txn = "open"])
       ELSE /\ Step(p, Done(calls[p], JNull, "BackendError"))
            /\ UNCHANGED writer
  /\ UNCHANGED <<rows, tableExists, now, initialized, allowStale, lastWrite>>

\* await transaction.execute({ sql, args })
SetExecAutocommit(p) ==
  /\ calls[p].op = "set" /\ calls[p].pc = "texec"
  /\ \E ok \in BOOLEAN :
       IF ok /\ tableExists
       THEN /\ rows' = Upsert(rows, calls[p].key,
                              JSONstringify(calls[p].value),
                              calls[p].expiresAt)
            /\ Step(p, [calls[p] EXCEPT !.pc = "commit", !.staged = rows'])
       ELSE /\ UNCHANGED rows
            /\ Step(p, [calls[p] EXCEPT !.pc = "rollback"])
  /\ UNCHANGED <<tableExists, writer, now, initialized, allowStale,
                 lastWrite>>
SetExec(p) ==
  /\ calls[p].op = "set" /\ calls[p].pc = "texec"
  /\ \E ok \in BOOLEAN :
       IF ok /\ tableExists
       THEN Step(p, [calls[p] EXCEPT
                       !.pc = "commit",
                       !.staged = Upsert(rows, calls[p].key,
                                         JSONstringify(calls[p].value),
                                         calls[p].expiresAt)])
       ELSE Step(p, [calls[p] EXCEPT !.pc = "rollback"])
  /\ UNCHANGED <<rows, tableExists, writer, now, initialized, allowStale,
                 lastWrite>>

\* await transaction.commit(); finally transaction.close()
SetCommitLateClock(p) ==
  /\ calls[p].op = "set" /\ calls[p].pc = "commit"
  /\ \E ok \in BOOLEAN :
       IF ok
       THEN /\ rows' = Upsert(rows, calls[p].key,
                              JSONstringify(calls[p].value),
                              ExpiresAt(calls[p].ttl, now))
            /\ writer' = 0
            /\ lastWrite' = [lastWrite EXCEPT ![calls[p].key] =
                 WriteOf("set", calls[p].value, calls[p].ttl, calls[p].t)]
            /\ Step(p, Done([calls[p] EXCEPT
                              !.closed = @ + 1,
                              !.txn = "committed",
                              !.overlapped = Waiting(p),
                              !.seen = lastWrite[calls[p].key]],
                            JNull, ""))
       ELSE /\ Step(p, [calls[p] EXCEPT !.pc = "rollback"])
            /\ UNCHANGED <<rows, writer, lastWrite>>
  /\ UNCHANGED <<tableExists, now, initialized, allowStale>>
SetCommit(p) ==
  /\ calls[p].op = "set" /\ calls[p].pc = "commit"
  /\ \E ok \in BOOLEAN :
       IF ok
       THEN /\ rows' = calls[p].staged
            /\ writer' = 0
            /\ lastWrite' = [lastWrite EXCEPT ![calls[p].key] =
                 WriteOf("set", calls[p].value, calls[p].ttl, calls[p].t)]
            /\ Step(p, Done([calls[p] EXCEPT
                              !.closed = @ + 1,
                              !.txn = "committed",
                              !.overlapped = Waiting(p),
                              !.seen = lastWrite[calls[p].key]],
                            JNull, ""))
       ELSE /\ Step(p, [calls[p] EXCEPT !.pc = "rollback"])
            /\ UNCHANGED <<rows, writer, lastWrite>>
  /\ UNCHANGED <<tableExists, now, initialized, allowStale>>

\* catch: await transaction.rollback(); throw; finally transaction.close()
SetRollbackLeak(p) ==
  /\ calls[p].op = "set" /\ calls[p].pc = "rollback"
  /\ \E ok \in BOOLEAN :
       IF ok
       THEN /\ writer' = 0
            /\ Step(p, Done([calls[p] EXCEPT !.closed = @ + 1,
                                              !.txn = "rolledback"],
                            JNull, "WriteFailed"))
       ELSE /\ UNCHANGED writer
            /\ Step(p, Done([calls[p] EXCEPT !.txn = "rollbackfailed"],
                            JNull, "BackendError"))
  /\ UNCHANGED <<rows, tableExists, now, initialized, allowStale, lastWrite>>
SetRollback(p) ==
  /\ calls[p].op = "set" /\ calls[p].pc = "rollback"
  /\ writer' = 0
  /\ \E ok \in BOOLEAN :
       Step(p, Done([calls[p] EXCEPT
                       !.closed = @ + 1,
                       !.txn = IF ok THEN "rolledback" ELSE "rollbackfailed"],
                     JNull, IF ok THEN "WriteFailed" ELSE "BackendError"))
  /\ UNCHANGED <<rows, tableExists, now, initialized, allowStale, lastWrite>>

(***************************************************************************)
(* get(key, allowStale?)                                                   *)
(***************************************************************************)
GetCall(p, k, arg) ==
  /\ calls[p].pc = "idle"
  /\ Step(p, [Idle EXCEPT !.op = "get", !.pc = "exec", !.key = k,
                          !.arg = arg])
  /\ UNCHANGED <<rows, tableExists, writer, now, initialized, allowStale,
                 lastWrite>>

\* const result = await this.client.execute({ sql, args })
GetExecSilent(p) ==
  /\ calls[p].op = "get" /\ calls[p].pc = "exec"
  /\ \E ok \in BOOLEAN :
       IF ok /\ tableExists
       THEN Step(p, [calls[p] EXCEPT
                       !.pc = "eval",
                       !.resultRows = Select(rows, calls[p].key),
                       !.seen = lastWrite[calls[p].key]])
       ELSE Step(p, Done(calls[p], JNull, ""))
  /\ UNCHANGED <<rows, tableExists, writer, now, initialized, allowStale,
                 lastWrite>>
GetExec(p) ==
  /\ calls[p].op = "get" /\ calls[p].pc = "exec"
  /\ \E ok \in BOOLEAN :
       IF ok /\ tableExists
       THEN Step(p, [calls[p] EXCEPT
                       !.pc = "eval",
                       !.resultRows = Select(rows, calls[p].key),
                       !.seen = lastWrite[calls[p].key]])
       ELSE Step(p, Done(calls[p], JNull, "ReadFailed"))
  /\ UNCHANGED <<rows, tableExists, writer, now, initialized, allowStale,
                 lastWrite>>

\* the rest of get, from `const row = result.rows[0]`; c.t is the clock read
GetOutcome(c, clock, this) ==
  LET d == [c EXCEPT !.t = clock] IN
  IF c.resultRows = {} THEN Done(d, JNull, "")
  ELSE LET row    == CHOOSE r \in c.resultRows : TRUE
           parsed == JSONparse(row.value)
       IN  IF IsStale(row, clock) /\ ~ShouldAllowStale(c.arg, this)
           THEN Done(d, JNull, "")
           ELSE IF parsed.ok THEN Done(d, parsed.v, "")
           ELSE Done(d, JNull, "ReadFailed")

\* get returned null for a row that is stale and not allowed
StaleMiss(c) ==
  /\ c.op = "get" /\ c.pc = "done" /\ c.error = ""
  /\ \E r \in c.resultRows : IsStale(r, c.t)
  /\ c.result = JNull

GetEvalDeleting(p) ==
  /\ calls[p].op = "get" /\ calls[p].pc = "eval"
  /\ Step(p, GetOutcome(calls[p], now, allowStale))
  /\ rows' = IF StaleMiss(GetOutcome(calls[p], now, allowStale))
             THEN DeleteKey(rows, calls[p].key) ELSE rows
  /\ UNCHANGED <<tableExists, writer, now, initialized, allowStale,
                 lastWrite>>
GetEval(p) ==
  /\ calls[p].op = "get" /\ calls[p].pc = "eval"
  /\ Step(p, GetOutcome(calls[p], now, allowStale))
  /\ UNCHANGED <<rows, tableExists, writer, now, initialized, allowStale,
                 lastWrite>>

(***************************************************************************)
(* delete(key)                                                             *)
(***************************************************************************)
\* delete runs to its first await, client.transaction('write')
DeleteCall(p, k) ==
  /\ calls[p].pc = "idle"
  /\ Step(p, [Idle EXCEPT !.op = "delete", !.pc = "txn", !.key = k])
  /\ UNCHANGED <<rows, tableExists, writer, now, initialized, allowStale,
                 lastWrite>>

\* const transaction = await this.client.transaction('write')
DeleteTxn(p) ==
  /\ calls[p].op = "delete" /\ calls[p].pc = "txn"
  /\ \E ok \in BOOLEAN :
       IF ok
       THEN /\ writer = 0
            /\ writer' = p
            /\ Step(p, [calls[p] EXCEPT !.pc = "texec", !.opened = 1, !.txn = "open"])
       ELSE /\ Step(p, Done(calls[p], JNull, "BackendError"))
            /\ UNCHANGED writer
  /\ UNCHANGED <<rows, tableExists, now, initialized, allowStale, lastWrite>>

\* await transaction.execute({ sql, args })
DeleteExec(p) ==
  /\ calls[p].op = "delete" /\ calls[p].pc = "texec"
  /\ \E ok \in BOOLEAN :
       IF ok /\ tableExists
       THEN Step(p, [calls[p] EXCEPT
                       !.pc = "commit",
                       !.staged = DeleteKey(rows, calls[p].key)])
       ELSE Step(p, [calls[p] EXCEPT !.pc = "rollback"])
  /\ UNCHANGED <<rows, tableExists, writer, now, initialized, allowStale,
                 lastWrite>>

\* await transaction.commit(); finally transaction.close()
DeleteCommit(p) ==
  /\ calls[p].op = "delete" /\ calls[p].pc = "commit"
  /\ \E ok \in BOOLEAN :
       IF ok
       THEN /\ rows' = calls[p].staged
            /\ writer' = 0
            /\ lastWrite' = [lastWrite EXCEPT ![calls[p].key] =
                 WriteOf("delete", JNull, TTLUndefined, 0)]
            /\ Step(p, Done([calls[p] EXCEPT
                              !.closed = @ + 1,
                              !.txn = "committed",
                              !.overlapped = Waiting(p),
                              !.seen = lastWrite[calls[p].key]],
                            JNull, ""))
       ELSE /\ Step(p, [calls[p] EXCEPT !.pc = "rollback"])
            /\ UNCHANGED <<rows, writer, lastWrite>>
  /\ UNCHANGED <<tableExists, now, initialized, allowStale>>

\* catch: await transaction.rollback(); throw; finally transaction.close()
DeleteRollback(p) ==
  /\ calls[p].op = "delete" /\ calls[p].pc = "rollback"
  /\ writer' = 0
  /\ \E ok \in BOOLEAN :
       Step(p, Done([calls[p] EXCEPT
                       !.closed = @ + 1,
                       !.txn = IF ok THEN "rolledback" ELSE "rollbackfailed"],
                     JNull, IF ok THEN "DeleteFailed" ELSE "BackendError"))
  /\ UNCHANGED <<rows, tableExists, now, initialized, allowStale, lastWrite>>

(***************************************************************************)
(* clearExpired()                                                          *)
(***************************************************************************)
\* clearExpired runs to its first await, client.transaction('write')
ClearCall(p) ==
  /\ calls[p].pc = "idle"
  /\ Step(p, [Idle EXCEPT !.op = "clearExpired", !.pc = "txn"])
  /\ UNCHANGED <<rows, tableExists, writer, now, initialized, allowStale,
                 lastWrite>>

\* const transaction = await this.client.transaction('write');
\* const args = [Date.now()]
ClearTxn(p) ==
  /\ calls[p].op = "clearExpired" /\ calls[p].pc = "txn"
  /\ \E ok \in BOOLEAN :
       IF ok
       THEN /\ writer = 0
            /\ writer' = p
            /\ Step(p, [calls[p] EXCEPT !.pc = "texec", !.opened = 1, !.txn = "open",
                                        !.t = now])
       ELSE /\ Step(p, Done(calls[p], JNull, "BackendError"))
            /\ UNCHANGED writer
  /\ UNCHANGED <<rows, tableExists, now, initialized, allowStale, lastWrite>>

\* const result = await transaction.execute({ sql, args })
ClearExec(p) ==
  /\ calls[p].op = "clearExpired" /\ calls[p].pc = "texec"
  /\ \E ok \in BOOLEAN :
       IF ok /\ tableExists
       THEN Step(p, [calls[p] EXCEPT
                       !.pc = "commit",
                       !.staged = rows \ Expired(rows, calls[p].t),
                       !.affected = Cardinality(Expired(rows, calls[p].t))])
       ELSE Step(p, [calls[p] EXCEPT !.pc = "rollback"])
  /\ UNCHANGED <<rows, tableExists, writer, now, initialized, allowStale,
                 lastWrite>>

\* await transaction.commit(); return Number(result.rowsAffected)
ClearCommit(p) ==
  /\ calls[p].op = "clearExpired" /\ calls[p].pc = "commit"
  /\ \E ok \in BOOLEAN :
       IF ok
       THEN /\ rows' = calls[p].staged
            /\ writer' = 0
            /\ lastWrite' =
                 [k \in Keys |->
                    IF \E r \in rows \ calls[p].staged : r.key = k
                    THEN WriteOf("clearExpired", JNull, TTLUndefined, 0)
                    ELSE lastWrite[k]]
            /\ Step(p, Done([calls[p] EXCEPT !.closed = @ + 1,
                                              !.txn = "committed",
                                              !.overlapped = Waiting(p)],
                            JNum(calls[p].affected), ""))
       ELSE /\ Step(p, [calls[p] EXCEPT !.pc = "rollback"])
            /\ UNCHANGED <<rows, writer, lastWrite>>
  /\ UNCHANGED <<tableExists, now, initialized, allowStale>>

\* catch: await transaction.rollback(); throw; finally transaction.close()
ClearRollback(p) ==
  /\ calls[p].op = "clearExpired" /\ calls[p].pc = "rollback"
  /\ writer' = 0
  /\ \E ok \in BOOLEAN :
       Step(p, Done([calls[p] EXCEPT
                       !.closed = @ + 1,
                       !.txn = IF ok THEN "rolledback" ELSE "rollbackfailed"],
                     JNull, IF ok THEN "CleanupFailed" ELSE "BackendError"))
  /\ UNCHANGED <<rows, tableExists, now, initialized, allowStale, lastWrite>>

Next ==
  \/ Tick
  \/ \E p \in Callers :
       \/ Return(p)
       \/ InitializeCall(p)
       \/ InitializeExec(p)
       \/ \E k \in Keys, v \in Values, ttl \in TTLs : SetCall(p, k, v, ttl)
       \/ SetTxn(p)
       \/ SetExec(p)
       \/ SetCommit(p)
       \/ SetRollback(p)
       \/ \E k \in Keys, arg \in Tri : GetCall(p, k, arg)
       \/ GetExec(p)
       \/ GetEval(p)
       \/ \E k \in Keys : DeleteCall(p, k)
       \/ DeleteTxn(p)
       \/ DeleteExec(p)
       \/ DeleteCommit(p)
       \/ DeleteRollback(p)
       \/ ClearCall(p)
       \/ ClearTxn(p)
       \/ ClearExec(p)
       \/ ClearCommit(p)
       \/ ClearRollback(p)

Spec == Init /\ [][Next]_vars

(***************************************************************************)
(* The round trip of a value through set and get: one caller, one key, no  *)
(* TTL, every value of JsonValues.                                         *)
(***************************************************************************)
NextRoundTrip ==
  \/ Tick
  \/ \E p \in Callers :
       \/ Return(p)
       \/ InitializeCall(p)
       \/ InitializeExec(p)
       \/ \E v \in JsonValues, ttl \in {TTLUndefined, TTLNull} :
            SetCall(p, "k1", v, ttl)
       \/ SetTxn(p)
       \/ SetExec(p)
       \/ SetCommit(p)
       \/ SetRollback(p)
       \/ \E arg \in Tri : GetCall(p, "k1", arg)
       \/ GetExec(p)
       \/ GetEval(p)

SpecRoundTrip == Init /\ [][NextRoundTrip]_vars

(***************************************************************************)
(* Overlapping calls: two callers issue initialize, set and get on one     *)
(* instance without awaiting one another, within one reading of the clock. *)
(***************************************************************************)
ConcCallers == {1, 2}
ConcValues == {JNull, JStr(<<"a">>)}
ConcTTLs == {TTLUndefined, TTLNum(2)}

InitConc ==
  /\ rows = {}
  /\ tableExists = FALSE
  /\ writer = 0
  /\ now = StartTime
  /\ initialized = FALSE
  /\ allowStale = ConstructAllowStale("undefined")
  /\ calls = [p \in ConcCallers |-> Idle]
  /\ lastWrite = [k \in Keys |-> NoWrite]

NextConc ==
  \E p \in ConcCallers :
    \/ Return(p)
    \/ InitializeCall(p)
    \/ InitializeExec(p)
    \/ \E k \in Keys, v \in ConcValues, ttl \in ConcTTLs :
         SetCall(p, k, v, ttl)
    \/ SetTxn(p)
    \/ SetExec(p)
    \/ SetCommit(p)
    \/ SetRollback(p)
    \/ \E k \in Keys : GetCall(p, k, "undefined")
    \/ GetExec(p)
    \/ GetEval(p)

SpecConc == InitConc /\ [][NextConc]_vars

(***************************************************************************)
(* Properties.                                                             *)
(***************************************************************************)
\* a get that has returned or thrown
GetDone(c) == c.op = "get" /\ c.pc = "done"
\* the write that the query of get c saw was a committed set
SawSet(c) == GetDone(c) /\ c.seen.op = "set"
\* the step is the successful commit of caller p's call of method op
Committed(p, op) ==
  /\ calls[p].op = op /\ calls[p].pc = "commit"
  /\ calls'[p].pc = "done" /\ calls'[p].error = ""
\* the stale-allowance in force in get c, as the claims word it
Allowed(c) ==
  \/ c.arg = "true"
  \/ c.arg = "undefined" /\ allowStale = "true"

\* C1: a get whose query saw the row written by a set without TTL (ttl
\* omitted or null) returns, whenever it is evaluated, a value equal to the
\* one that was set.
C1_RoundTrip ==
  \A p \in DOMAIN calls :
    SawSet(calls[p]) /\ calls[p].seen.ttl.kind \in {"undefined", "null"}
      => calls[p].error = "" /\ calls[p].result = calls[p].seen.value

\* a string with a quote and a nested array have made the round trip
C1_Witness ==
  \E p \in DOMAIN calls :
    /\ SawSet(calls[p])
    /\ calls[p].error = ""
    /\ calls[p].t > StartTime
    /\ calls[p].seen.value = JObj(<< <<<<"a">>, JArr(<<JStr(<<"\"">>)>>)>> >>)
    /\ calls[p].result = calls[p].seen.value

\* C2: a set that commits leaves exactly one row for its key; the row holds
\* the text of the value of that call, and its expires_at comes from the ttl
\* of that call alone: null when the ttl is omitted or null, the clock read
\* by the call plus the ttl when the ttl is positive, whatever row was there.
C2_FullReplace ==
  [][\A p \in DOMAIN calls :
       Committed(p, "set") =>
         LET c == calls[p]
             mine == {r \in rows' : r.key = c.key}
         IN  /\ Cardinality(mine) = 1
             /\ \A r \in mine :
                  /\ r.value = JSONstringify(c.value)
                  /\ c.ttl.kind \in {"undefined", "null"}
                       => r.expires_at = NULL
                  /\ c.ttl.kind = "num" /\ c.ttl.half > 0
                       => r.expires_at = c.t + (c.ttl.half \div 2)]_vars

\* a set without TTL has replaced a row with another value and a TTL
C2_Witness ==
  \E p \in DOMAIN calls :
    LET c == calls[p] IN
    /\ c.op = "set" /\ c.pc = "done" /\ c.error = ""
    /\ c.ttl.kind = "undefined"
    /\ c.seen.op = "set" /\ TTLTruthy(c.seen.ttl) /\ c.seen.value # c.value
    /\ Select(rows, c.key) = {Row(c.key, JSONstringify(c.value), NULL)}

\* C3: a get whose query saw the row written by set(k, v, ttl), ttl > 0,
\* at clock t returns v when it is evaluated before t + ttl; evaluated at or
\* after t + ttl it returns null when staleness is not allowed and v when
\* it is allowed.
C3_TTLExpiry ==
  \A p \in DOMAIN calls :
    LET c == calls[p]
        expiry == c.seen.t + (c.seen.ttl.half \div 2)
    IN  SawSet(c) /\ c.seen.ttl.kind = "num" /\ c.seen.ttl.half > 0
          => /\ c.error = ""
             /\ c.t < expiry => c.result = c.seen.value
             /\ c.t >= expiry =>
                  c.result = IF Allowed(c) THEN c.seen.value ELSE JNull

\* at the boundary instant expires_at = now a get without stale-allowance
\* returned null for a row that holds another value
C3_Witness ==
  \E p \in DOMAIN calls :
    LET c == calls[p] IN
    /\ SawSet(c) /\ c.seen.ttl.kind = "num" /\ c.seen.ttl.half > 0
    /\ c.t = c.seen.t + (c.seen.ttl.half \div 2)
    /\ ~Allowed(c)
    /\ c.seen.value # JNull
    /\ c.result = JNull /\ c.error = ""

\* C4 (as claimed): a get without stale-allowance whose query saw the row
\* written by set(k, v, 0) returns null, the row being stale at once.
C4_ZeroTTLIsStale ==
  \A p \in DOMAIN calls :
    LET c == calls[p] IN
    SawSet(c) /\ c.seen.ttl = TTLNum(0) /\ ~Allowed(c)
      => c.error = "" /\ c.result = JNull

\* C5: a set whose ttl is provided and is negative or not an integer throws
\* InvalidTTL at the call: it opens no transaction, takes no lock and leaves
\* every row as it was.
C5_InvalidTTL ==
  [][\A p \in DOMAIN calls :
       /\ calls[p].pc = "idle" /\ calls'[p].op = "set"
       /\ calls'[p].ttl.kind = "num"
       /\ (calls'[p].ttl.half < 0 \/ calls'[p].ttl.half % 2 # 0)
       => /\ calls'[p].pc = "done"
          /\ calls'[p].error = "InvalidTTL"
          /\ calls'[p].opened = 0
          /\ writer' = writer
          /\ rows' = rows]_vars

\* set(k, v, -1) was rejected while k has a row
C5_Witness ==
  \E p \in DOMAIN calls :
    LET c == calls[p] IN
    /\ c.op = "set" /\ c.pc = "done" /\ c.error = "InvalidTTL"
    /\ c.ttl = TTLNum(-2)
    /\ Select(rows, c.key) # {}
    /\ writer = 0

\* C6: on a stale row get(k, true) returns the value, get(k, false) returns
\* null, and get(k) returns the value or null as the store's allowStale is
\* true or false; the store's allowStale is always one of the two.
C6_StaleAllowance ==
  /\ allowStale \in {"true", "false"}
  /\ \A p \in DOMAIN calls :
       LET c == calls[p] IN
       \A r \in c.resultRows :
         GetDone(c) /\ r.expires_at # NULL /\ r.expires_at <= c.t
           => /\ c.error = ""
              /\ c.arg = "true" => c.result = JSONparse(r.value).v
              /\ c.arg = "false" => c.result = JNull
              /\ c.arg = "undefined" =>
                   c.result = IF allowStale = "true"
                              THEN JSONparse(r.value).v ELSE JNull

\* get(k, true) returned the value of a stale row in a store whose
\* allowStale is false
C6_Witness ==
  \E p \in DOMAIN calls :
    LET c == calls[p] IN
    /\ GetDone(c) /\ c.arg = "true" /\ allowStale = "false"
    /\ \E r \in c.resultRows : r.expires_at # NULL /\ r.expires_at <= c.t
    /\ c.result # JNull

C8_GetDeletesExpired ==
  [][\A p \in DOMAIN calls :
       calls[p].op = "get" /\ calls[p].pc = "eval" /\ StaleMiss(calls'[p])
         => Select(rows', calls[p].key) = {}]_vars

\* C9: a clearExpired that commits with timestamp t removes exactly the rows
\* whose expires_at is not null and <= t, returns their number, and leaves
\* every other row as it was.
C9_ClearExpired ==
  [][\A p \in DOMAIN calls :
       Committed(p, "clearExpired") =>
         LET t == calls[p].t
             gone == {r \in rows : r.expires_at # NULL /\ r.expires_at <= t}
         IN  /\ rows' = rows \ gone
             /\ calls'[p].result = JNum(Cardinality(gone))]_vars

\* clearExpired removed a row that expired at its very timestamp and kept
\* another row
C9_Witness ==
  \E p \in DOMAIN calls :
    LET c == calls[p] IN
    /\ c.op = "clearExpired" /\ c.pc = "done" /\ c.error = ""
    /\ c.result = JNum(1)
    /\ \E k \in Keys : lastWrite[k].op = "clearExpired"
    /\ rows # {}

\* C10: a delete that commits removes the row of its key and no other row
\* (nothing at all when the key has no row), and a get whose query saw that
\* delete as the last write to the key returns null.
C10_Delete ==
  /\ [][\A p \in DOMAIN calls :
          Committed(p, "delete") =>
            /\ rows' = {r \in rows : r.key # calls[p].key}
            /\ Select(rows, calls[p].key) = {} => rows' = rows]_vars
  /\ [](\A p \in DOMAIN calls :
          GetDone(calls[p]) /\ calls[p].seen.op = "delete"
            => calls[p].error = "" /\ calls[p].result = JNull)

\* a delete removed the row of its key while the other key keeps its row
C10_Witness ==
  \E p \in DOMAIN calls :
    LET c == calls[p] IN
    /\ c.op = "delete" /\ c.pc = "done" /\ c.error = ""
    /\ c.seen.op = "set"
    /\ Select(rows, c.key) = {}
    /\ rows # {}


\* C11: once the flag is set, a call of initialize throws AlreadyInitialized
\* at the call, without a statement to the backend (table, lock and rows
\* are as before), and the flag stays true.
C11_AlreadyInitialized ==
  [][\A p \in DOMAIN calls :
       initialized /\ calls[p].pc = "idle" /\ calls'[p].op = "initialize"
         => /\ calls'[p].pc = "done"
            /\ calls'[p].error = "AlreadyInitialized"
            /\ initialized'
            /\ UNCHANGED <<rows, tableExists, writer>>]_vars

\* a second initialize was rejected on an initialized store that holds a row
C11_Witness ==
  \E p \in DOMAIN calls :
    /\ calls[p].op = "initialize" /\ calls[p].pc = "done"
    /\ calls[p].error = "AlreadyInitialized"
    /\ initialized /\ tableExists /\ rows # {}


\* the text of JSON null
NullText == JSONstringify(JNull)

\* C13 (as claimed): a get returns null only when its query found no row or
\* found a row that is stale while staleness is not allowed.
C13_NullOnlyAbsentOrStale ==
  \A p \in DOMAIN calls :
    LET c == calls[p] IN
    GetDone(c) /\ c.error = "" /\ c.result = JNull
      => \/ c.resultRows = {}
         \/ \E r \in c.resultRows : IsStale(r, c.t) /\ ~Allowed(c)

\* C13 (amended): a get returns null only when its query found no row, or a
\* row that is stale while staleness is not allowed, or a row whose stored
\* value is null; and a get whose query fails at the backend throws
\* ReadFailed instead of returning.
C13_NoSilentNull ==
  /\ [](\A p \in DOMAIN calls :
          LET c == calls[p] IN
          GetDone(c) /\ c.error = "" /\ c.result = JNull
            => \/ c.resultRows = {}
               \/ \E r \in c.resultRows :
                    \/ r.expires_at # NULL /\ r.expires_at <= c.t /\ ~Allowed(c)
                    \/ r.value = NullText)
  /\ [][\A p \in DOMAIN calls :
          /\ calls[p].op = "get" /\ calls[p].pc = "exec"
          /\ calls'[p].pc = "done"
          => calls'[p].error = "ReadFailed"]_vars

\* a get failed with ReadFailed on an existing table that holds the row
C13_Witness ==
  \E p \in DOMAIN calls :
    LET c == calls[p] IN
    /\ GetDone(c) /\ c.error = "ReadFailed"
    /\ tableExists
    /\ Select(rows, c.key) # {}


\* the step is the return of caller p's initialize from its await
InitializeReturns(p) ==
  /\ calls[p].op = "initialize" /\ calls[p].pc = "exec"
  /\ calls'[p].pc = "done"

\* C15: the flag is false at first; it becomes true only in the step in
\* which an initialize returns without error; it never becomes false again;
\* an initialize whose statement fails throws InitializationFailed with the
\* flag still false, and a call of initialize made while the flag is false
\* is not rejected.
C15_LifecycleFlag ==
  /\ ~initialized
  /\ [][/\ initialized => initialized'
        /\ ~initialized /\ initialized' =>
             \E p \in DOMAIN calls :
               InitializeReturns(p) /\ calls'[p].error = ""
        /\ \A p \in DOMAIN calls :
             /\ InitializeReturns(p) =>
                  /\ calls'[p].error \in {"", "InitializationFailed"}
                  /\ calls'[p].error = "" => initialized'
                  /\ calls'[p].error # "" =>
                       ~initialized' /\ initialized' = initialized
             /\ ~initialized /\ calls[p].pc = "idle"
                  /\ calls'[p].op = "initialize" => calls'[p].pc = "exec"]_vars

\* an initialize failed at the backend and the flag is false
C15_Witness ==
  \E p \in DOMAIN calls :
    /\ calls[p].op = "initialize" /\ calls[p].pc = "done"
    /\ calls[p].error = "InitializationFailed"
    /\ ~initialized


\* the call holds an open write transaction
InTransaction(c) == c.pc \in {"texec", "commit", "rollback"}

\* C16: a call opens at most one write transaction and closes it exactly
\* once, not later than it returns or throws, whether the commit succeeded,
\* the execute or the commit failed, or the rollback itself failed; the
\* write lock is held only by a call that is inside its transaction; and a
\* transaction that was committed is never rolled back.
C16_ScopedTransaction ==
  /\ [](/\ \A p \in DOMAIN calls :
             LET c == calls[p] IN
             /\ c.closed <= c.opened /\ c.opened <= 1
             /\ c.pc = "done" => c.closed = c.opened
             /\ c.pc = "done" /\ c.op \in {"set", "delete", "clearExpired"}
                  /\ c.error \notin {"InvalidTTL"} /\ c.txn # "none"
                  => c.closed = 1
             /\ InTransaction(c) =>
                  c.opened = 1 /\ c.closed = 0 /\ c.txn = "open" /\ writer = p
        /\ (\A p \in DOMAIN calls : ~InTransaction(calls[p])) => writer = 0)
  /\ [][\A p \in DOMAIN calls :
          /\ calls[p].txn = "committed" =>
               calls'[p].txn \in {"committed", "none"}
          /\ calls'[p].txn \in {"rolledback", "rollbackfailed"}
               /\ calls'[p] # calls[p] =>
               calls[p].txn = "open" /\ calls[p].pc = "rollback"]_vars

\* a set whose commit path failed and whose rollback failed too has thrown
\* with its transaction closed and the write lock free
C16_Witness ==
  \E p \in DOMAIN calls :
    LET c == calls[p] IN
    /\ c.op = "set" /\ c.pc = "done" /\ c.txn = "rollbackfailed"
    /\ c.opened = 1 /\ c.closed = 1
    /\ writer = 0


\* C17: whenever a backend step of a write operation fails, set fails with
\* WriteFailed, delete with DeleteFailed and clearExpired with CleanupFailed;
\* no backend error reaches the caller unwrapped.
C17_UniformWrapping ==
  \A p \in DOMAIN calls :
    LET c == calls[p] IN
    c.pc = "done" /\ c.error # "" =>
      /\ c.op = "set" => c.error \in {"InvalidTTL", "WriteFailed"}
      /\ c.op = "delete" => c.error = "DeleteFailed"
      /\ c.op = "clearExpired" => c.error = "CleanupFailed"


WriteOps == {"set", "delete", "clearExpired"}
\* the step is a step of a write call of caller p, from its issue to its
\* return or throw
WriteStep(p) ==
  /\ calls'[p] # calls[p]
  /\ calls'[p].op \in WriteOps
  /\ calls'[p].pc # "idle"

\* C18: a set, delete or clearExpired that fails at execute or at commit has
\* rolled its transaction back before its error surfaces, and no step of it
\* has changed the rows of the store: the rows change only in the step in
\* which a call commits successfully, and a call that does so does not fail.
C18_UnchangedOnFailure ==
  [][\A p \in DOMAIN calls :
       WriteStep(p) =>
         /\ calls'[p].txn # "committed" =>
              rows' = rows /\ lastWrite' = lastWrite
         /\ calls'[p].pc = "done" /\ calls'[p].error # "" =>
              /\ calls'[p].txn # "committed"
              /\ rows' = rows
         /\ calls'[p].pc = "done" /\ calls[p].pc = "rollback" =>
              /\ calls'[p].error # ""
              /\ calls'[p].txn \in {"rolledback", "rollbackfailed"}
         /\ calls'[p].pc = "done"
              /\ calls'[p].error \in
                   {"WriteFailed", "DeleteFailed", "CleanupFailed"} =>
              calls'[p].txn = "rolledback"]_vars

\* a set on a key that holds a row of another value has failed after its
\* execute succeeded (at commit), and the row is still the one written before
C18_Witness ==
  \E p \in DOMAIN calls :
    LET c == calls[p] IN
    /\ c.op = "set" /\ c.pc = "done" /\ c.error = "WriteFailed"
    /\ c.txn = "rolledback"
    /\ lastWrite[c.key].op = "set" /\ lastWrite[c.key].value # c.value
    /\ Select(rows, c.key) =
         {Row(c.key, JSONstringify(lastWrite[c.key].value),
              ExpiresAt(lastWrite[c.key].ttl, lastWrite[c.key].t))}


\* C20: every stored row's expires_at is null or is the clock value read by
\* the set that wrote the row, at its call, plus that call's ttl, however
\* long the set stayed suspended; and the expires_at of the row of a key
\* changes only in the step in which a set on that key commits.
C20_ExpiryFixedAtWrite ==
  /\ [](\A r \in rows :
          LET w == lastWrite[r.key] IN
          /\ w.op = "set"
          /\ \/ r.expires_at = NULL
             \/ /\ w.ttl.kind = "num"
                /\ 2 * r.expires_at = 2 * w.t + w.ttl.half)
  /\ [][\A r \in rows : \A s \in rows' :
          r.key = s.key /\ r.expires_at # s.expires_at =>
            \E p \in DOMAIN calls : Committed(p, "set") /\ calls[p].key = r.key
       ]_vars

\* a set with a ttl has committed after the clock moved on from the value it
\* read, and its row expires at the value read plus the ttl
C20_Witness ==
  \E p \in DOMAIN calls : \E r \in rows :
    LET c == calls[p] IN
    /\ c.op = "set" /\ c.pc = "done" /\ c.error = ""
    /\ c.ttl.kind = "num" /\ c.ttl.half > 0
    /\ now > c.t
    /\ r.key = c.key
    /\ 2 * r.expires_at = 2 * c.t + c.ttl.half
    /\ r.expires_at < now + (c.ttl.half \div 2)


\* C14: of the initialize calls issued on one instance, overlapping ones
\* included, at most one completes successfully: an initialize never returns
\* without error once another has (the flag is set), and every initialize
\* that completes after a successful one is rejected with AlreadyInitialized.
C14_AtMostOneInitialize ==
  [][\A p \in DOMAIN calls :
       calls'[p].op = "initialize" /\ calls'[p].pc = "done"
         /\ calls[p].pc # "done" /\ initialized =>
         calls'[p].error = "AlreadyInitialized"]_vars


\* C12: a set that commits while other sets are in flight writes the row of
\* its own key and leaves the row of every other key as it was, so no write
\* to another key is lost; and a get that follows returns the value of the
\* set that committed last on its key.
C12_NoLostWrites ==
  /\ [](\A p \in DOMAIN calls :
          LET c == calls[p] IN
          SawSet(c) /\ c.error = ""
            /\ (\A r \in c.resultRows : ~IsStale(r, c.t)) =>
            c.result = c.seen.value)
  /\ [][\A p \in DOMAIN calls :
          Committed(p, "set") =>
            /\ \A k \in Keys \ {calls[p].key} :
                 /\ Select(rows', k) = Select(rows, k)
                 /\ lastWrite'[k] = lastWrite[k]
            /\ Select(rows', calls[p].key) =
                 {Row(calls[p].key, JSONstringify(calls[p].value),
                      calls[p].expiresAt)}]_vars

\* one caller's set on a key committed while the other caller was waiting
\* for the write transaction; afterwards the rows of both keys are there and
\* the other caller's get on the other key returned the value set for it
C12_Witness ==
  \E p \in DOMAIN calls, q \in DOMAIN calls :
    LET c == calls[p]
        g == calls[q]
    IN  /\ p # q
        /\ c.op = "set" /\ c.pc = "done" /\ c.error = "" /\ c.overlapped
        /\ SawSet(g) /\ g.error = "" /\ g.key # c.key
        /\ g.result = lastWrite[g.key].value /\ g.result # JNull
        /\ Select(rows, c.key) =
             {Row(c.key, JSONstringify(c.value), c.expiresAt)}
        /\ Select(rows, g.key) # {}


\* C19: in every reachable state, under any interleaving of sets on the same
\* key, a key has at most one row, and the value and the expires_at of that
\* row are both those of one set call, the one whose transaction committed
\* last on the key, whatever the order in which the calls were issued.
C19_AtomicSet ==
  \A r \in rows :
    LET w == lastWrite[r.key] IN
    /\ Cardinality(Select(rows, r.key)) = 1
    /\ w.op = "set"
    /\ r.value = JSONstringify(w.value)
    /\ r.expires_at =
         IF w.ttl.kind = "num" /\ w.ttl.half # 0
         THEN w.t + (w.ttl.half \div 2) ELSE NULL

\* two sets on one key with different values and ttls overlapped; the one
\* that committed second overwrote the pair of the first with its own pair
C19_Witness ==
  \E p \in DOMAIN calls, q \in DOMAIN calls :
    LET c == calls[p]
        d == calls[q]
    IN  /\ p # q
        /\ c.op = "set" /\ c.pc = "done" /\ c.error = "" /\ c.overlapped
        /\ d.op = "set" /\ d.pc = "done" /\ d.error = ""
        /\ d.key = c.key /\ d.value # c.value /\ d.ttl # c.ttl
        /\ d.seen = WriteOf("set", c.value, c.ttl, c.t)
        /\ rows = {Row(d.key, JSONstringify(d.value), d.expiresAt)}

=============================================================================
